---- MODULE Spec2Model ----
(***************************************************************************)
(* Model of the gas-distribution service (BlockchainService.distributeGas  *)
(* and the controller that calls it).                                      *)
(*                                                                         *)
(* Strings are sequences of atoms.  An atom is a single character where    *)
(* the code looks at characters (addresses, decimal amounts) and a whole   *)
(* phrase where the code only tests `includes(phrase)` or compares the     *)
(* text as a whole (error messages).                                       *)
(*                                                                         *)
(* Amounts are integers in minor units.  ethers uses 18 decimals for       *)
(* parseEther/formatEther; TLC's integers are 32 bits wide, so the model   *)
(* keeps the codec as written but with EtherDecimals digits, the smallest  *)
(* exponent in which the threshold "0.005" is representable.               *)
(***************************************************************************)
EXTENDS Integers, Sequences, FiniteSets, TLC

\* ------------------------------------------------------------------ bounds
EtherDecimals == 3
AddrHexLen == 2
NumCalls == 2
MaxInvocations == 2
\* MAX_REQUESTS_PER_MINUTE and MAX_REQUESTS_PER_DAY, '10' and '100' by
\* default, scaled, and the ticks of the clock in a minute and the minutes in
\* a day
DefaultMaxRequestsPerMinute == 2
DefaultMaxRequestsPerDay == 3
WindowTicks == 2
MinutesPerDay == 2

\* ----------------------------------------------------------------- strings
Absent == <<"undefined">>

Digits == {"0", "1", "2", "3", "4", "5", "6", "7", "8", "9"}

DigitVal ==
  "0" :> 0 @@ "1" :> 1 @@ "2" :> 2 @@ "3" :> 3 @@ "4" :> 4 @@
  "5" :> 5 @@ "6" :> 6 @@ "7" :> 7 @@ "8" :> 8 @@ "9" :> 9

DigitChar ==
  0 :> "0" @@ 1 :> "1" @@ 2 :> "2" @@ 3 :> "3" @@ 4 :> "4" @@
  5 :> "5" @@ 6 :> "6" @@ 7 :> "7" @@ 8 :> "8" @@ 9 :> "9"

LowerHexLetters == {"a", "b", "c", "d", "e", "f"}
UpperHexLetters == {"A", "B", "C", "D", "E", "F"}
HexChars == Digits \cup LowerHexLetters \cup UpperHexLetters

ToLowerChar ==
  [ch \in HexChars \cup {"x", "X", "g", "G"} |->
     CASE ch = "A" -> "a" [] ch = "B" -> "b" [] ch = "C" -> "c"
       [] ch = "D" -> "d" [] ch = "E" -> "e" [] ch = "F" -> "f"
       [] ch = "X" -> "x" [] ch = "G" -> "g"
       [] OTHER -> ch]

ToUpperChar ==
  [ch \in HexChars \cup {"x", "X", "g", "G"} |->
     CASE ch = "a" -> "A" [] ch = "b" -> "B" [] ch = "c" -> "C"
       [] ch = "d" -> "D" [] ch = "e" -> "E" [] ch = "f" -> "F"
       [] ch = "x" -> "X" [] ch = "g" -> "G"
       [] OTHER -> ch]

\* String.prototype.toLowerCase
toLowerCase(s) == [i \in 1..Len(s) |-> ToLowerChar[s[i]]]

\* String.prototype.includes, at the granularity of atoms
Includes(s, atom) == \E i \in 1..Len(s) : s[i] = atom

Rep(ch, n) == [i \in 1..n |-> ch]

RECURSIVE Pow10(_)
Pow10(n) == IF n = 0 THEN 1 ELSE 10 * Pow10(n - 1)

RECURSIVE DigitsToNat(_)
DigitsToNat(s) ==
  IF Len(s) = 0 THEN 0
  ELSE 10 * DigitsToNat(SubSeq(s, 1, Len(s) - 1)) + DigitVal[s[Len(s)]]

RECURSIVE NatToDigits(_)
NatToDigits(n) ==
  IF n < 10 THEN <<DigitChar[n]>>
  ELSE Append(NatToDigits(n \div 10), DigitChar[n % 10])

AllDigits(s) == \A i \in 1..Len(s) : s[i] \in Digits
AllZeros(s) == \A i \in 1..Len(s) : s[i] = "0"

\* Index of the first "." of s, or 0
FirstDot(s) ==
  IF \E i \in 1..Len(s) : s[i] = "."
  THEN CHOOSE i \in 1..Len(s) : s[i] = "." /\ \A j \in 1..(i - 1) : s[j] # "."
  ELSE 0

\* ------------------------------------------------------------ amount codec
\* ethers.parseEther: FixedNumber.fromString with /^(-?)([0-9]*)\.?([0-9]*)$/,
\* at least one digit, the fraction padded with zeros to the format's
\* decimals, and any digit beyond them required to be 0.  The result is
\* [ok |-> FALSE] where ethers throws.
ParseFailure == [ok |-> FALSE, value |-> 0]

parseEther(s) ==
  LET neg     == Len(s) > 0 /\ s[1] = "-"
      rest    == IF neg THEN Tail(s) ELSE s
      p       == FirstDot(rest)
      whole   == IF p = 0 THEN rest ELSE SubSeq(rest, 1, p - 1)
      decimal == IF p = 0 THEN <<>> ELSE SubSeq(rest, p + 1, Len(rest))
      padded  == IF Len(decimal) < EtherDecimals
                 THEN decimal \o Rep("0", EtherDecimals - Len(decimal))
                 ELSE decimal
      kept    == SubSeq(padded, 1, EtherDecimals)
      extra   == SubSeq(padded, EtherDecimals + 1, Len(padded))
      mag     == DigitsToNat(whole) * Pow10(EtherDecimals) + DigitsToNat(kept)
  IN  IF ~(AllDigits(whole) /\ AllDigits(decimal)
           /\ Len(whole) + Len(decimal) > 0)
      THEN ParseFailure
      ELSE IF ~AllZeros(extra)
      THEN ParseFailure
      ELSE [ok |-> TRUE, value |-> IF neg THEN 0 - mag ELSE mag]

\* ethers.formatEther for a non-negative value (balances): whole part, ".",
\* the fraction on EtherDecimals digits with trailing zeros stripped down
\* to one digit.
RECURSIVE StripTrailingZeros(_)
StripTrailingZeros(s) ==
  IF Len(s) > 1 /\ s[Len(s)] = "0"
  THEN StripTrailingZeros(SubSeq(s, 1, Len(s) - 1))
  ELSE s

formatEther(v) ==
  LET whole == NatToDigits(v \div Pow10(EtherDecimals))
      raw   == NatToDigits(v % Pow10(EtherDecimals))
      frac  == Rep("0", EtherDecimals - Len(raw)) \o raw
  IN  whole \o <<".">> \o StripTrailingZeros(frac)

\* ----------------------------------------------------------- address codec
HasPrefix(s) == Len(s) >= 2 /\ s[1] = "0" /\ s[2] = "x"

Body(s) == IF HasPrefix(s) THEN SubSeq(s, 3, Len(s)) ELSE s

\* Stand-in for the EIP-55 casing (keccak-derived in ethers): one fixed
\* mixed-case spelling per account; here the first character is upper-cased.
ChecksumBody(b) ==
  [i \in 1..Len(b) |-> IF i = 1 THEN ToUpperChar[ToLowerChar[b[i]]]
                       ELSE ToLowerChar[b[i]]]

IsMixedCase(b) ==
  /\ \E i \in 1..Len(b) : b[i] \in UpperHexLetters
  /\ \E i \in 1..Len(b) : b[i] \in LowerHexLetters

\* ethers.isAddress: optional "0x", exactly AddrHexLen hex characters (40 in
\* ethers), and a mixed-case spelling must be the checksummed one.
isAddress(s) ==
  LET b == Body(s)
  IN  /\ Len(b) = AddrHexLen
      /\ \A i \in 1..Len(b) : b[i] \in HexChars
      /\ (IsMixedCase(b) => b = ChecksumBody(b))

\* Variant: only the length and the prefix are looked at
isValidAddress_LengthOnly(address) ==
  Len(address) = AddrHexLen + 2 /\ HasPrefix(address)

\* BlockchainService.isValidAddress
isValidAddress(address) == isAddress(address)

\* The ledger account an address string names
AccountOf(s) == toLowerCase(Body(s))

\* ------------------------------------------------------------------ errors
NoHash == 0

NoError ==
  [name |-> "none", message |-> <<>>, statusCode |-> 0, txHash |-> NoHash,
   currentBalance |-> Absent, threshold |-> Absent]

\* AppError and its subclasses (utils/errors.ts)
AppError(name, message, statusCode) ==
  [name |-> name, message |-> message, statusCode |-> statusCode,
   txHash |-> NoHash, currentBalance |-> Absent, threshold |-> Absent]

BlockchainError(message, txHash) ==
  [AppError("BlockchainError", message, 500) EXCEPT !.txHash = txHash]

InsufficientBalanceError(message) ==
  [BlockchainError(message, NoHash) EXCEPT !.name = "InsufficientBalanceError"]

DefaultInsufficientMessage == <<"Insufficient balance for gas distribution">>

SufficientBalanceError(message, currentBalance, threshold) ==
  [AppError("SufficientBalanceError", message, 400)
     EXCEPT !.currentBalance = currentBalance, !.threshold = threshold]

\* What the ledger client (ethers) can throw: an Error with a message, or a
\* value that is not an Error.
RawError(message) ==
  [name |-> "Error", message |-> message, statusCode |-> 0, txHash |-> NoHash,
   currentBalance |-> Absent, threshold |-> Absent]

NonError(text) == [RawError(text) EXCEPT !.name = "NonError"]

LedgerErrors ==
  { RawError(<<"insufficient funds", " for intrinsic transaction cost">>),
    RawError(<<"network", " error occurred">>),
    RawError(<<"network", " error: ", "insufficient funds">>),
    RawError(<<"transaction execution reverted">>),
    NonError(<<"network">>) }

\* instanceof BlockchainError / SufficientBalanceError / InsufficientBalanceError
IsCustomError(e) ==
  e.name \in {"SufficientBalanceError", "BlockchainError",
              "InsufficientBalanceError"}

\* error instanceof Error: every AppError is an Error
IsError(e) == e.name # "NonError"

\* Variant: the 'network' test comes first
RethrowUnclassified_NetworkFirst(e) ==
  IF IsError(e) /\ Includes(e.message, "network")
  THEN BlockchainError(<<"Network error - please try again later">>, NoHash)
  ELSE IF IsError(e) /\ Includes(e.message, "insufficient funds")
  THEN InsufficientBalanceError(DefaultInsufficientMessage)
  ELSE BlockchainError(<<"Transaction failed - unexpected error">>, NoHash)

\* The catch block of distributeGas: what it throws for a caught value
RethrowUnclassified(e) ==
  IF IsError(e) /\ Includes(e.message, "insufficient funds")
  THEN InsufficientBalanceError(DefaultInsufficientMessage)
  ELSE IF IsError(e) /\ Includes(e.message, "network")
  THEN BlockchainError(<<"Network error - please try again later">>, NoHash)
  ELSE BlockchainError(<<"Transaction failed - unexpected error">>, NoHash)

\* Variant: the caught value is thrown again as it is
DistributeGasCatch_Rethrow(e) == e

DistributeGasCatch(e) ==
  IF IsCustomError(e) THEN e ELSE RethrowUnclassified(e)

\* ------------------------------------------------------------------ config
\* envSchema defaults and the environments considered
DefaultGasAmount == <<"0", ".", "1">>
DefaultMinimumBalanceThreshold == <<"0", ".", "1">>
FallbackThreshold == <<"0", ".", "0", "0", "5">>

\* MINIMUM_BALANCE_THRESHOLD not set, and set to the empty string
EnvThresholds == {Absent, <<>>}

EnvConfig(envThreshold) ==
  [NODE_ENV |-> "development",
   GAS_AMOUNT |-> DefaultGasAmount,
   MAX_REQUESTS_PER_MINUTE |-> DefaultMaxRequestsPerMinute,
   MAX_REQUESTS_PER_DAY |-> DefaultMaxRequestsPerDay,
   MINIMUM_BALANCE_THRESHOLD |->
     IF envThreshold = Absent THEN DefaultMinimumBalanceThreshold
     ELSE envThreshold]

\* ------------------------------------------------------------------ inputs
Wei(s) == parseEther(s).value

WalletAccount == Rep("a", AddrHexLen)
OtherAccount == Rep("b", AddrHexLen)

\* wallet.address is the checksummed spelling
WalletAddress == <<"0", "x">> \o ChecksumBody(WalletAccount)

\* The wallet's address in its three valid spellings
WalletSpellings ==
  { WalletAddress,
    <<"0", "x">> \o WalletAccount,
    <<"0", "x">> \o Rep("A", AddrHexLen) }

\* Another account, with and without the prefix
OtherSpellings == { <<"0", "x">> \o OtherAccount, OtherAccount }

\* Too short, not hexadecimal, wrongly cased, empty
MalformedRecipients ==
  { <<"0", "x">> \o Rep("b", AddrHexLen - 1),
    <<"0", "x">> \o Rep("g", AddrHexLen),
    <<"0", "x">> \o Rep("b", AddrHexLen - 1) \o <<"B">>,
    <<>> }

RecipientInputs == WalletSpellings \cup OtherSpellings \cup MalformedRecipients

\* An amount with as many decimals as the currency has
FullPrecisionAmount == <<"0", ".", "0", "2">> \o Rep("1", EtherDecimals - 2)

AmountInputs ==
  { Absent, <<>>, FullPrecisionAmount, <<"x">>, <<"-", "1">> }

Accounts == {WalletAccount, OtherAccount}

InitialRecipientBalances == {Wei(FallbackThreshold) - 1, Wei(FallbackThreshold)}
InitialWalletBalances == {Wei(<<"0", ".", "0", "5">>), Wei(<<"1">>)}

\* ------------------------------------------------------------------- state
VARIABLES
  config,         \* the parsed environment (env.config)
  ledgerBalance,  \* the remote ledger: balance of each account
  ledgerTxs,      \* the remote ledger: submitted transfers, hash = index
  call,           \* each distributeGas request: position, locals, outcome
  invocations,    \* number of requests started so far
  funded,         \* accounts a request answered 200 has transferred to
  now,            \* the clock, in ticks
  store,          \* the rate limiter's store: hits and reset time per client
  limitLog,       \* the requests under /api the rate limiter has seen
  proc,           \* the server process (index.ts)
  lambda          \* the serverless function instance (api/index.ts)

\* The state outside the service and its ledger
hostVars == <<now, store, limitLog, proc, lambda>>

vars == <<config, ledgerBalance, ledgerTxs, call, invocations, funded,
          hostVars>>

\* The clients of the rate limiter (req.ip)
Clients == {"ip1", "ip2"}

NoClient == [totalHits |-> 0, resetTime |-> 0]

\* Before the process and the function instance are looked at
NoProcess == [pc |-> "none"]
NoLambda == [pc |-> "none"]

HostIdle ==
  /\ now = 0
  /\ store = [kind |-> "perClient", clients |-> [k \in Clients |-> NoClient]]
  /\ limitLog = <<>>
  /\ proc = NoProcess
  /\ lambda = NoLambda

Calls == 1..NumCalls

\* feeData.gasPrice || parseUnits('1', 'gwei'), in gwei
DefaultGasPrice == 1
FeeDataGasPrices == {0, 3}

NoReceipt == [present |-> FALSE, hash |-> NoHash, status |-> 0,
              from |-> <<>>, to |-> <<>>]

NoResult == [present |-> FALSE, hash |-> NoHash, from |-> <<>>, to |-> <<>>,
             value |-> <<>>, status |-> FALSE]

\* The HTTP response: `by` is who wrote it; on a failure (success FALSE)
\* message, statusCode, transactionHash, currentBalance and threshold are the
\* members of the body's error object, NoHash or Absent when left out.
NoResponse == [sent |-> FALSE, by |-> "none", status |-> 0, success |-> FALSE,
               transactionHash |-> NoHash, recipient |-> <<>>,
               amount |-> <<>>, message |-> <<>>, statusCode |-> 0,
               currentBalance |-> Absent, threshold |-> Absent,
               stack |-> FALSE]

Unobserved == -1

\* An HTTP request: method, path with the route's parameter left as written in
\* the route, the three places a key can be in, and the address and amount of
\* the body (or of the path, for GET /api/balance/:address)
NoRequest ==
  [method |-> "", path |-> "", authorization |-> Absent, xApiKey |-> Absent,
   queryApiKey |-> Absent, address |-> Absent, amount |-> Absent]

IdleCall ==
  [pc |-> "idle", recipientAddress |-> <<>>, amount |-> Absent,
   gasAmount |-> <<>>, valueInWei |-> 0,
   recipientBalance |-> Unobserved, minimumBalance |-> Unobserved,
   balance |-> Unobserved, gasPrice |-> 0, txHash |-> NoHash,
   waited |-> "no", receipt |-> NoReceipt, ledgerCalls |-> <<>>,
   result |-> NoResult, caught |-> NoError, rejected |-> "none",
   repeat |-> FALSE, request |-> NoRequest, route |-> "none",
   handler |-> "none", healthy |-> FALSE, blockQuery |-> <<>>,
   error |-> NoError, nextArgs |-> <<>>, response |-> NoResponse]

\* A call to the ledger client, as a mock of it would record it
LedgerCall(op, who) == [op |-> op, who |-> who]

Issue(cr, op, who) ==
  [cr EXCEPT !.pc = op, !.ledgerCalls = Append(@, LedgerCall(op, who))]

\* A value thrown inside the try block: the catch block decides what the
\* returned promise rejects with.  `caught` keeps the value the catch block
\* received.
Throw(cr, e) ==
  [cr EXCEPT !.pc = "settled", !.caught = e, !.error = DistributeGasCatch(e)]

\* Variant: a rejected ledger call is issued once more before giving up
Reject_Retry(cr, e) ==
  IF cr.rejected = "none"
  THEN Issue([cr EXCEPT !.rejected = cr.pc], cr.pc, "-")
  ELSE Throw([cr EXCEPT !.rejected = cr.pc], e)

\* An awaited ledger call rejected: control passes straight to the catch
\* block; `rejected` keeps which call it was.
Reject(cr, e) == Throw([cr EXCEPT !.rejected = cr.pc], e)

\* Variant: the caller's amount is ignored
ResolveAmount_AlwaysDefault(amount, cfg) == cfg.GAS_AMOUNT

\* amount || config.GAS_AMOUNT
ResolveAmount(amount, cfg) ==
  IF amount = Absent \/ amount = <<>> THEN cfg.GAS_AMOUNT ELSE amount

\* config.MINIMUM_BALANCE_THRESHOLD || '0.005'
ResolveThreshold(cfg) ==
  IF cfg.MINIMUM_BALANCE_THRESHOLD = <<>> THEN FallbackThreshold
  ELSE cfg.MINIMUM_BALANCE_THRESHOLD

ParseErrorFor(text) == RawError(<<"invalid FixedNumber string value">> \o text)

\* Variant: strict comparison
RecipientHasEnough_Strict(recipientBalance, minimumBalance) ==
  recipientBalance > minimumBalance

\* recipientBalance >= minimumBalance
RecipientHasEnough(recipientBalance, minimumBalance) ==
  recipientBalance >= minimumBalance

\* Variant: operands swapped
WalletCannotCover_Swapped(balance, valueInWei) == valueInWei < balance

\* balance < valueInWei
WalletCannotCover(balance, valueInWei) == balance < valueInWei

\* recipientAddress.toLowerCase() === this.wallet.address.toLowerCase()
IsSelfTransfer(recipientAddress) ==
  toLowerCase(recipientAddress) = toLowerCase(WalletAddress)

Init ==
  /\ \E t \in EnvThresholds : config = EnvConfig(t)
  /\ \E w \in InitialWalletBalances, r \in InitialRecipientBalances :
       ledgerBalance = [a \in Accounts |-> IF a = WalletAccount THEN w ELSE r]
  /\ ledgerTxs = <<>>
  /\ call = [c \in Calls |-> IdleCall]
  /\ invocations = 0
  /\ funded = {}
  /\ HostIdle

\* provider.getBalance as the ledger answers it: an account the ledger has
\* never seen has balance 0
BalanceOf(account) ==
  IF account \in DOMAIN ledgerBalance THEN ledgerBalance[account] ELSE 0

\* ------------------------------------------------------------- distributeGas
\* Variant: the wallet balance is queried first
DistributeGasEntry_WalletFirst(recipientAddress, amount) ==
  LET cr0 == [IdleCall EXCEPT !.recipientAddress = recipientAddress,
                              !.amount = amount]
      gasAmount == ResolveAmount(amount, config)
      parsed == parseEther(gasAmount)
  IN  IF ~isValidAddress(recipientAddress)
      THEN Throw(cr0, BlockchainError(<<"Invalid recipient address">>, NoHash))
      ELSE IF ~parsed.ok
      THEN Throw([cr0 EXCEPT !.gasAmount = gasAmount], ParseErrorFor(gasAmount))
      ELSE Issue([cr0 EXCEPT !.gasAmount = gasAmount,
                             !.valueInWei = parsed.value],
                 "getBalance", "wallet")

\* Entry up to the first await: address validation, amount resolution and
\* conversion, then the recipient balance query is issued.
DistributeGasEntry(recipientAddress, amount) ==
  LET cr0 == [IdleCall EXCEPT !.recipientAddress = recipientAddress,
                              !.amount = amount]
      gasAmount == ResolveAmount(amount, config)
      parsed == parseEther(gasAmount)
  IN  IF ~isValidAddress(recipientAddress)
      THEN Throw(cr0, BlockchainError(<<"Invalid recipient address">>, NoHash))
      ELSE IF ~parsed.ok
      THEN Throw([cr0 EXCEPT !.gasAmount = gasAmount], ParseErrorFor(gasAmount))
      ELSE Issue([cr0 EXCEPT !.gasAmount = gasAmount,
                             !.valueInWei = parsed.value],
                 "getRecipientBalance", "recipient")

\* Requests are served one after the other in this specification; a request
\* takes the first free slot.  `repeat` keeps whether an earlier request for
\* the same account was answered with success.
Invoke(c, recipientAddress, amount) ==
  /\ \A d \in Calls : call[d].pc = "idle"
  /\ \A d \in Calls : c <= d
  /\ invocations < MaxInvocations
  /\ call' = [call EXCEPT ![c] =
       [DistributeGasEntry(recipientAddress, amount)
          EXCEPT !.repeat = AccountOf(recipientAddress) \in funded]]
  /\ invocations' = invocations + 1
  /\ UNCHANGED <<hostVars, config, ledgerBalance, ledgerTxs, funded>>

\* Variant: the recipient gate is left out
AfterRecipientBalance_Ungated(cr, observed) ==
  LET threshold == ResolveThreshold(config)
      parsed == parseEther(threshold)
      cr1 == [cr EXCEPT !.recipientBalance = observed]
  IN  IF ~parsed.ok
      THEN Throw(cr1, ParseErrorFor(threshold))
      ELSE Issue([cr1 EXCEPT !.minimumBalance = parsed.value],
                 "getBalance", "wallet")

\* provider.getBalance(recipient) resolved: the recipient-sufficiency gate,
\* then the wallet balance query is issued.
AfterRecipientBalance(cr, observed) ==
  LET threshold == ResolveThreshold(config)
      parsed == parseEther(threshold)
      cr1 == [cr EXCEPT !.recipientBalance = observed]
      cr2 == [cr1 EXCEPT !.minimumBalance = parsed.value]
      formatted == formatEther(observed)
  IN  IF ~parsed.ok
      THEN Throw(cr1, ParseErrorFor(threshold))
      ELSE IF RecipientHasEnough(observed, parsed.value)
      THEN Throw(cr2, SufficientBalanceError(
                        <<"You have enough sFUEL. Current balance: ">>
                          \o formatted \o <<" FAIR (minimum required: ">>
                          \o threshold \o <<" FAIR)">>,
                        formatted, threshold))
      ELSE Issue(cr2, "getBalance", "wallet")

\* Variant: a request for a recipient another request is serving is declined
RecipientBalanceResolved_Dedup(c) ==
  /\ call[c].pc = "getRecipientBalance"
  /\ call' = [call EXCEPT ![c] =
       IF \E d \in Calls \ {c} :
            /\ call[d].recipientAddress = call[c].recipientAddress
            /\ call[d].recipientBalance # Unobserved
       THEN Throw(AfterRecipientBalance(
                    @, BalanceOf(AccountOf(@.recipientAddress))),
                  SufficientBalanceError(<<"Request already in progress">>,
                                         <<>>, <<>>))
       ELSE AfterRecipientBalance(@, BalanceOf(AccountOf(@.recipientAddress)))]
  /\ UNCHANGED <<hostVars, config, ledgerBalance, ledgerTxs, invocations, funded>>

RecipientBalanceResolved(c) ==
  /\ call[c].pc = "getRecipientBalance"
  /\ call' = [call EXCEPT ![c] =
       AfterRecipientBalance(@, BalanceOf(AccountOf(@.recipientAddress)))]
  /\ UNCHANGED <<hostVars, config, ledgerBalance, ledgerTxs, invocations, funded>>

\* getRecipientBalance's catch
RecipientBalanceRejected(c) ==
  /\ call[c].pc = "getRecipientBalance"
  /\ call' = [call EXCEPT ![c] =
       Reject(@, BlockchainError(<<"Failed to retrieve recipient balance">>,
                                NoHash))]
  /\ UNCHANGED <<hostVars, config, ledgerBalance, ledgerTxs, invocations, funded>>

\* provider.getBalance(wallet) resolved: the wallet-solvency gate, the
\* self-transfer guard, then the fee query is issued.
AfterWalletBalance(cr, observed) ==
  LET cr1 == [cr EXCEPT !.balance = observed]
  IN  IF WalletCannotCover(observed, cr.valueInWei)
      THEN Throw(cr1, InsufficientBalanceError(
                        <<"Insufficient balance. Required: ">> \o cr.gasAmount
                          \o <<" FAIR, Available: ">> \o formatEther(observed)
                          \o <<" FAIR">>))
      ELSE IF IsSelfTransfer(cr.recipientAddress)
      THEN Throw(cr1, BlockchainError(
                        <<"Cannot distribute gas to the same wallet">>, NoHash))
      ELSE Issue(cr1, "getFeeData", "-")

\* Variant: the wallet gate waits while another request is between its own
\* gate and its submission
WalletBalanceResolved_Locked(c) ==
  /\ call[c].pc = "getBalance"
  /\ \A d \in Calls \ {c} : call[d].pc \notin {"getFeeData", "sendTransaction"}
  /\ call' = [call EXCEPT ![c] =
       AfterWalletBalance(@, BalanceOf(WalletAccount))]
  /\ UNCHANGED <<hostVars, config, ledgerBalance, ledgerTxs, invocations, funded>>

WalletBalanceResolved(c) ==
  /\ call[c].pc = "getBalance"
  /\ call' = [call EXCEPT ![c] =
       AfterWalletBalance(@, BalanceOf(WalletAccount))]
  /\ UNCHANGED <<hostVars, config, ledgerBalance, ledgerTxs, invocations, funded>>

\* getBalance's catch
WalletBalanceRejected(c) ==
  /\ call[c].pc = "getBalance"
  /\ call' = [call EXCEPT ![c] =
       Reject(@, BlockchainError(<<"Failed to retrieve wallet balance">>,
                                NoHash))]
  /\ UNCHANGED <<hostVars, config, ledgerBalance, ledgerTxs, invocations, funded>>

\* provider.getFeeData() resolved: the gas price is chosen and the
\* transaction is handed to wallet.sendTransaction.
AfterFeeData(cr, feeGasPrice) ==
  Issue([cr EXCEPT !.gasPrice = IF feeGasPrice = 0 THEN DefaultGasPrice
                                ELSE feeGasPrice],
        "sendTransaction", "-")

FeeDataResolved(c, feeGasPrice) ==
  /\ call[c].pc = "getFeeData"
  /\ call' = [call EXCEPT ![c] = AfterFeeData(@, feeGasPrice)]
  /\ UNCHANGED <<hostVars, config, ledgerBalance, ledgerTxs, invocations, funded>>

FeeDataRejected(c, e) ==
  /\ call[c].pc = "getFeeData"
  /\ call' = [call EXCEPT ![c] = Reject(@, e)]
  /\ UNCHANGED <<hostVars, config, ledgerBalance, ledgerTxs, invocations, funded>>

\* Variant: the wait is given up at once with a timeout error
SendResolved_TimesOut(c) ==
  /\ call[c].pc = "sendTransaction"
  /\ call[c].valueInWei >= 0
  /\ ledgerTxs' = Append(ledgerTxs,
       [to |-> AccountOf(call[c].recipientAddress),
        value |-> call[c].valueInWei, status |-> "pending"])
  /\ call' = [call EXCEPT ![c] =
       Throw(Issue([@ EXCEPT !.txHash = Len(ledgerTxs) + 1], "wait", "-"),
             RawError(<<"timeout">>))]
  /\ UNCHANGED <<hostVars, config, ledgerBalance, invocations, funded>>

\* wallet.sendTransaction resolved: the ledger accepted the transfer and
\* gave it a hash; tx.wait() is issued.  The client refuses a negative value.
SendResolved(c) ==
  /\ call[c].pc = "sendTransaction"
  /\ call[c].valueInWei >= 0
  /\ ledgerTxs' = Append(ledgerTxs,
       [to |-> AccountOf(call[c].recipientAddress),
        value |-> call[c].valueInWei, status |-> "pending"])
  /\ call' = [call EXCEPT ![c] =
       Issue([@ EXCEPT !.txHash = Len(ledgerTxs) + 1], "wait", "-")]
  /\ UNCHANGED <<hostVars, config, ledgerBalance, invocations, funded>>

SendRejected(c, e) ==
  /\ call[c].pc = "sendTransaction"
  /\ call' = [call EXCEPT ![c] = Reject(@, e)]
  /\ UNCHANGED <<hostVars, config, ledgerBalance, ledgerTxs, invocations, funded>>

\* The ledger includes a pending transfer in a block.  A successful one moves
\* the value; the fee (21000 gas at a few gwei) is below one minor unit of
\* the model and is not deducted.
Mine(h, ok) ==
  /\ h \in 1..Len(ledgerTxs)
  /\ ledgerTxs[h].status = "pending"
  /\ IF ok
     THEN /\ ledgerBalance[WalletAccount] >= ledgerTxs[h].value
          /\ ledgerTxs' = [ledgerTxs EXCEPT ![h].status = "success"]
          /\ ledgerBalance' =
               LET debited == [ledgerBalance EXCEPT
                                 ![WalletAccount] = @ - ledgerTxs[h].value]
               IN  [debited EXCEPT
                      ![ledgerTxs[h].to] = @ + ledgerTxs[h].value]
     ELSE /\ ledgerTxs' = [ledgerTxs EXCEPT ![h].status = "reverted"]
          /\ UNCHANGED ledgerBalance
  /\ UNCHANGED <<hostVars, config, call, invocations, funded>>

ReceiptOf(h) ==
  [present |-> TRUE, hash |-> h,
   status |-> IF ledgerTxs[h].status = "success" THEN 1 ELSE 0,
   from |-> WalletAddress,
   to |-> <<"0", "x">> \o ChecksumBody(ledgerTxs[h].to)]

\* if (!receipt) throw new BlockchainError('Transaction failed - no receipt')
NoReceiptError(txHash) ==
  BlockchainError(<<"Transaction failed - no receipt">>, NoHash)

\* Variant: the hash is left out
FailedStatusError_NoHash(receipt) ==
  BlockchainError(<<"Transaction failed">>, NoHash)

\* if (!transactionInfo.status) throw new BlockchainError('Transaction failed', receipt.hash)
FailedStatusError(receipt) ==
  BlockchainError(<<"Transaction failed">>, receipt.hash)

\* Variant: the status is not taken from the receipt
MakeTransactionInfo_StatusTrue(receipt, recipientAddress, valueInWei) ==
  [present |-> TRUE, hash |-> receipt.hash, from |-> receipt.from,
   to |-> IF receipt.to = <<>> THEN recipientAddress ELSE receipt.to,
   value |-> NatToDigits(valueInWei), status |-> TRUE]

\* The TransactionInfo assembled from the receipt
MakeTransactionInfo(receipt, recipientAddress, valueInWei) ==
  [present |-> TRUE, hash |-> receipt.hash, from |-> receipt.from,
   to |-> IF receipt.to = <<>> THEN recipientAddress ELSE receipt.to,
   value |-> NatToDigits(valueInWei), status |-> receipt.status = 1]

\* tx.wait() resolved with a receipt or with null
AfterWait(cr, receipt) ==
  LET cr1 == [cr EXCEPT !.receipt = receipt,
                        !.waited = IF receipt.present THEN "receipt"
                                   ELSE "null"]
      transactionInfo ==
        MakeTransactionInfo(receipt, cr.recipientAddress, cr.valueInWei)
  IN  IF ~receipt.present
      THEN Throw(cr1, NoReceiptError(cr.txHash))
      ELSE IF ~transactionInfo.status
      THEN Throw(cr1, FailedStatusError(receipt))
      ELSE [cr1 EXCEPT !.pc = "settled", !.result = transactionInfo]

WaitResolvedReceipt(c) ==
  /\ call[c].pc = "wait"
  /\ ledgerTxs[call[c].txHash].status # "pending"
  /\ call' = [call EXCEPT ![c] = AfterWait(@, ReceiptOf(@.txHash))]
  /\ UNCHANGED <<hostVars, config, ledgerBalance, ledgerTxs, invocations, funded>>

WaitResolvedNull(c) ==
  /\ call[c].pc = "wait"
  /\ call' = [call EXCEPT ![c] = AfterWait(@, NoReceipt)]
  /\ UNCHANGED <<hostVars, config, ledgerBalance, ledgerTxs, invocations, funded>>

WaitRejected(c, e) ==
  /\ call[c].pc = "wait"
  /\ call' = [call EXCEPT ![c] = Reject([@ EXCEPT !.waited = "rejected"], e)]
  /\ UNCHANGED <<hostVars, config, ledgerBalance, ledgerTxs, invocations, funded>>

\* -------------------------------------------------------------- errorHandler
\* err instanceof AppError
IsAppError(e) ==
  e.name \in {"AppError", "AuthenticationError", "ValidationError",
              "RateLimitError", "BlockchainError", "InsufficientBalanceError",
              "SufficientBalanceError"}

\* err.name: no constructor of utils/errors.ts assigns `name`, so an error of
\* any of its classes reads the one inherited from Error.prototype.
NameProperty(e) == "Error"

\* Variant: the message and the stack are given in every mode
errorHandler_AlwaysDetailed(err, nodeEnv) ==
  [NoResponse EXCEPT
     !.sent = TRUE, !.by = "errorHandler",
     !.status = IF IsAppError(err) THEN err.statusCode ELSE 500,
     !.message = err.message,
     !.statusCode = IF IsAppError(err) THEN err.statusCode ELSE 500,
     !.stack = ~IsAppError(err)]

\* errorHandler (middleware/error.middleware.ts), which Express runs inside
\* next(error): the response it writes
errorHandler(err, nodeEnv) ==
  IF IsAppError(err)
  THEN [NoResponse EXCEPT
          !.sent = TRUE, !.by = "errorHandler", !.status = err.statusCode,
          !.message = err.message, !.statusCode = err.statusCode,
          !.transactionHash =
             IF NameProperty(err) = "BlockchainError" /\ err.txHash # NoHash
             THEN err.txHash ELSE NoHash,
          !.currentBalance =
             IF NameProperty(err) = "SufficientBalanceError"
                /\ err.currentBalance \notin {Absent, <<>>}
             THEN err.currentBalance ELSE Absent,
          !.threshold =
             IF NameProperty(err) = "SufficientBalanceError"
                /\ err.threshold \notin {Absent, <<>>}
             THEN err.threshold ELSE Absent]
  ELSE [NoResponse EXCEPT
          !.sent = TRUE, !.by = "errorHandler", !.status = 500,
          !.message = IF nodeEnv = "production"
                      THEN <<"Internal server error">> ELSE err.message,
          !.statusCode = 500,
          !.stack = nodeEnv # "production"]

\* ---------------------------------------------------------------- controller
\* GasController.distributeGas after the service promise settled: the
\* response on success, next(error) on failure.
ControllerSettle(cr) ==
  IF cr.error = NoError
  THEN [cr EXCEPT !.pc = "responded",
          !.response = [NoResponse EXCEPT
             !.sent = TRUE, !.by = "controller", !.status = 200,
             !.success = TRUE, !.transactionHash = cr.result.hash,
             !.recipient = cr.recipientAddress,
             !.amount = formatEther(DigitsToNat(cr.result.value))]]
  ELSE [cr EXCEPT !.pc = "responded", !.nextArgs = Append(@, cr.error),
                  !.response = errorHandler(cr.error, config.NODE_ENV)]

ControllerContinue(c) ==
  /\ call[c].pc = "settled"
  /\ call' = [call EXCEPT ![c] = ControllerSettle(@)]
  /\ funded' = IF call[c].error = NoError
                THEN funded \cup {AccountOf(call[c].recipientAddress)}
                ELSE funded
  /\ UNCHANGED <<hostVars, config, ledgerBalance, ledgerTxs, invocations>>

\* The request is over; its slot can serve the next one.
Return(c) ==
  /\ call[c].pc = "responded"
  /\ call' = [call EXCEPT ![c] = IdleCall]
  /\ UNCHANGED <<hostVars, config, ledgerBalance, ledgerTxs, invocations, funded>>

Next ==
  \/ \E c \in Calls, r \in RecipientInputs, a \in AmountInputs : Invoke(c, r, a)
  \/ \E c \in Calls : RecipientBalanceResolved(c)
  \/ \E c \in Calls : RecipientBalanceRejected(c)
  \/ \E c \in Calls : WalletBalanceResolved(c)
  \/ \E c \in Calls : WalletBalanceRejected(c)
  \/ \E c \in Calls, g \in FeeDataGasPrices : FeeDataResolved(c, g)
  \/ \E c \in Calls, e \in LedgerErrors : FeeDataRejected(c, e)
  \/ \E c \in Calls : SendResolved(c)
  \/ \E c \in Calls, e \in LedgerErrors : SendRejected(c, e)
  \/ \E h \in 1..MaxInvocations, ok \in BOOLEAN : Mine(h, ok)
  \/ \E c \in Calls : WaitResolvedReceipt(c)
  \/ \E c \in Calls : WaitResolvedNull(c)
  \/ \E c \in Calls, e \in LedgerErrors : WaitRejected(c, e)
  \/ \E c \in Calls : ControllerContinue(c)
  \/ \E c \in Calls : Return(c)

Spec == Init /\ [][Next]_vars

\* ------------------------------------------------------ concurrent requests
\* Requests served at the same time: each call of distributeGas is its own
\* task and the service keeps nothing between the awaits of a task, so the
\* steps of different requests interleave freely.  The wallet holds one and a
\* half times the default amount; every request asks for the default amount
\* for the same recipient, and the ledger answers every call.
RaceWalletBalance == Wei(DefaultGasAmount) + Wei(DefaultGasAmount) \div 2

\* The wallet holds that, or enough for two transfers
RaceWalletBalances == {RaceWalletBalance, 2 * Wei(DefaultGasAmount)}

RaceRecipient == <<"0", "x">> \o OtherAccount

InitRace ==
  /\ config = EnvConfig(Absent)
  /\ \E r \in InitialRecipientBalances, w \in RaceWalletBalances :
       ledgerBalance = [a \in Accounts |-> IF a = WalletAccount
                                           THEN w ELSE r]
  /\ ledgerTxs = <<>>
  /\ call = [c \in Calls |-> IdleCall]
  /\ invocations = 0
  /\ funded = {}
  /\ HostIdle

InvokeConcurrent(c, recipientAddress, amount) ==
  /\ call[c].pc = "idle"
  /\ invocations < MaxInvocations
  /\ call' = [call EXCEPT ![c] =
       [DistributeGasEntry(recipientAddress, amount)
          EXCEPT !.repeat = AccountOf(recipientAddress) \in funded]]
  /\ invocations' = invocations + 1
  /\ UNCHANGED <<hostVars, config, ledgerBalance, ledgerTxs, funded>>

NextRace ==
  \/ \E c \in Calls : InvokeConcurrent(c, RaceRecipient, Absent)
  \/ \E c \in Calls : RecipientBalanceResolved(c)
  \/ \E c \in Calls : WalletBalanceResolved(c)
  \/ \E c \in Calls : FeeDataResolved(c, DefaultGasPrice)
  \/ \E c \in Calls : SendResolved(c)
  \/ \E h \in 1..MaxInvocations, ok \in BOOLEAN : Mine(h, ok)
  \/ \E c \in Calls : WaitResolvedReceipt(c)
  \/ \E c \in Calls : ControllerContinue(c)

SpecRace == InitRace /\ [][NextRace]_vars

\* ------------------------------------------------------------ HTTP: validation
\* Max 10 tokens per request
MaxTokens == 10

\* The text parseFloat reads: the longest prefix that is a decimal literal
\* (sign, digits, at most one point, at least one digit).  Exponents and
\* leading blanks do not occur in the amounts considered.
IsDecimalLiteral(t) ==
  LET u == IF Len(t) > 0 /\ t[1] = "-" THEN Tail(t) ELSE t
      p == FirstDot(u)
      whole == IF p = 0 THEN u ELSE SubSeq(u, 1, p - 1)
      decimal == IF p = 0 THEN <<>> ELSE SubSeq(u, p + 1, Len(u))
  IN  AllDigits(whole) /\ AllDigits(decimal) /\ Len(whole) + Len(decimal) > 0

NumericPrefix(s) ==
  LET ns == {n \in 1..Len(s) : IsDecimalLiteral(SubSeq(s, 1, n))}
  IN  IF ns = {} THEN <<>>
      ELSE SubSeq(s, 1, CHOOSE n \in ns : \A m \in ns : m <= n)

\* A double keeps 15 to 17 significant decimal digits, fewer than the 20 of
\* ten tokens written in minor units (2 + 18); the model's double keeps the
\* same kind of shortfall against 2 + EtherDecimals digits.
FloatSigDigits == EtherDecimals + 1

NaN == [nan |-> TRUE, neg |-> FALSE, num |-> 0, den |-> 1]

\* n rounded to a multiple of unit, and to FloatSigDigits significant digits
RoundTo(n, unit) == ((n + unit \div 2) \div unit) * unit

RoundToSig(n, sig) ==
  IF sig > FloatSigDigits THEN RoundTo(n, Pow10(sig - FloatSigDigits)) ELSE n

\* An unsigned decimal literal with its point at p (0: none) as num / den
LiteralValue(u, p, neg) ==
  IF p = 0
  THEN [nan |-> FALSE, neg |-> neg,
        num |-> RoundToSig(DigitsToNat(u), Len(NatToDigits(DigitsToNat(u)))),
        den |-> 1]
  ELSE [nan |-> FALSE, neg |-> neg,
        num |-> RoundToSig(
                  DigitsToNat(SubSeq(u, 1, p - 1) \o SubSeq(u, p + 1, Len(u))),
                  Len(NatToDigits(DigitsToNat(
                    SubSeq(u, 1, p - 1) \o SubSeq(u, p + 1, Len(u)))))),
        den |-> Pow10(Len(u) - p)]

\* parseFloat: the number num / den nearest to the literal among those with
\* FloatSigDigits significant digits, or NaN
parseFloat(s) ==
  LET t == NumericPrefix(s)
  IN  IF t = <<>> THEN NaN
      ELSE IF t[1] = "-" THEN LiteralValue(Tail(t), FirstDot(Tail(t)), TRUE)
      ELSE LiteralValue(t, FirstDot(t), FALSE)

\* gasDistributionSchema.amount: optional, and when present and not empty
\* parseFloat(val) > 0 && parseFloat(val) <= 10
AmountRefine(val) ==
  IF val = Absent \/ val = <<>> THEN TRUE
  ELSE LET parsed == parseFloat(val)
       IN  /\ ~parsed.nan
           /\ ~parsed.neg /\ parsed.num > 0
           /\ parsed.num <= MaxTokens * parsed.den

\* gasDistributionSchema.address: a string of at least one character that
\* ethers.isAddress accepts
AddressRefine(val) == val # Absent /\ Len(val) >= 1 /\ isAddress(val)

gasDistributionSchema(body) ==
  AddressRefine(body.address) /\ AmountRefine(body.amount)

AuthenticationError(message) == AppError("AuthenticationError", message, 401)

ValidationError(message) == AppError("ValidationError", message, 400)

\* -------------------------------------------------------- HTTP: authentication
\* config.API_KEY, shortened
ConfiguredApiKey == <<"k", "1", "2">>

\* Buffer.from(text).length: a character outside ASCII takes two bytes
RECURSIVE ByteLength(_)
ByteLength(text) ==
  IF text = <<>> THEN 0
  ELSE (IF Head(text) = "U+00E9" THEN 2 ELSE 1) + ByteLength(Tail(text))

\* extractApiKey: the Bearer token, else the X-API-Key header, else in
\* development the apiKey query parameter, else undefined
extractApiKey(req, nodeEnv) ==
  IF req.authorization # Absent /\ Len(req.authorization) > 0
     /\ req.authorization[1] = "Bearer "
  THEN Tail(req.authorization)
  ELSE IF req.xApiKey # Absent /\ req.xApiKey # <<>>
  THEN req.xApiKey
  ELSE IF nodeEnv = "development" /\ req.queryApiKey # Absent
          /\ req.queryApiKey # <<>>
  THEN req.queryApiKey
  ELSE Absent

\* validateApiKey: "true", "false", or "throws" where crypto.timingSafeEqual
\* is given buffers of different byte length
validateApiKey(apiKey) ==
  IF Len(apiKey) # Len(ConfiguredApiKey) THEN "false"
  ELSE IF ByteLength(apiKey) # ByteLength(ConfiguredApiKey) THEN "throws"
  ELSE IF apiKey = ConfiguredApiKey THEN "true" ELSE "false"

\* authenticateApiKey: NoError when it calls next(), else the value it
\* passes to next(error)
authenticateApiKey(req, nodeEnv) ==
  LET apiKey == extractApiKey(req, nodeEnv)
  IN  IF apiKey = Absent \/ apiKey = <<>>
      THEN AuthenticationError(<<"API key is required">>)
      ELSE IF validateApiKey(apiKey) = "throws"
      THEN RawError(<<"Input buffers must have the same byte length">>)
      ELSE IF validateApiKey(apiKey) = "false"
      THEN AuthenticationError(<<"Invalid API key">>)
      ELSE NoError

\* ----------------------------------------------------------------- HTTP: app
\* routes/gas.routes.ts mounted on /api, the root endpoint, and the 404 handler
Route(req) ==
  IF req.method = "POST" /\ req.path = "/api/fair/gas" THEN "distributeGas"
  ELSE IF req.method = "GET" /\ req.path = "/api/health" THEN "healthCheck"
  ELSE IF req.method = "GET" /\ req.path = "/api/balance/:address"
  THEN "checkBalance"
  ELSE IF req.method = "POST" /\ req.path = "/api/estimate" THEN "estimateGas"
  ELSE IF req.method = "GET" /\ req.path = "/" THEN "root"
  ELSE "notFound"

\* The routes that name authenticateApiKey
ProtectedRoutes == {"distributeGas", "checkBalance", "estimateGas"}

\* next(error): Express runs errorHandler
NextError(cr, e) ==
  [cr EXCEPT !.pc = "responded", !.error = e, !.nextArgs = Append(@, e),
             !.response = errorHandler(e, config.NODE_ENV)]

\* res.status(status).json(...) by a handler
Respond(cr, by, status) ==
  [cr EXCEPT !.pc = "responded",
             !.response = [NoResponse EXCEPT !.sent = TRUE, !.by = by,
                                             !.status = status,
                                             !.success = status = 200]]

\* GasController.checkBalance up to its await
CheckBalanceEntry(cr) ==
  LET cr1 == [cr EXCEPT !.handler = "checkBalance",
                        !.recipientAddress = cr.request.address]
  IN  IF ~isValidAddress(cr.request.address)
      THEN NextError(cr1, AppError("AppError", <<"Invalid address format">>,
                                   400))
      ELSE [Issue(cr1, "getRecipientBalance", "recipient")
              EXCEPT !.pc = "checkBalance"]

\* GasController.estimateGas up to its first await; the amount defaults to
\* '0.1' and BlockchainService.estimateGas converts it inside its try block
EstimateGasEntry(cr) ==
  LET cr1 == [cr EXCEPT !.handler = "estimateGas",
                        !.recipientAddress = cr.request.address]
      gasAmount == IF cr.request.amount = Absent \/ cr.request.amount = <<>>
                   THEN <<"0", ".", "1">> ELSE cr.request.amount
  IN  IF ~isValidAddress(cr.request.address)
      THEN NextError(cr1, AppError("AppError", <<"Invalid address format">>,
                                   400))
      ELSE IF ~parseEther(gasAmount).ok
      THEN NextError(cr1, BlockchainError(<<"Failed to estimate gas cost">>,
                                          NoHash))
      ELSE [Issue(cr1, "estimateGas", "recipient")
              EXCEPT !.pc = "estimate.estimateGas"]

\* GasController.healthCheck up to its first await
HealthCheckEntry(cr) ==
  [Issue([cr EXCEPT !.handler = "healthCheck"], "getBlockNumber", "-")
     EXCEPT !.pc = "health.getBlockNumber"]

\* What the app does with a request before anything is awaited: routing,
\* authenticateApiKey on the routes that name it, then the handler or, for
\* POST /api/fair/gas, the validation middleware
HttpEntry(req) ==
  LET route == Route(req)
      cr0 == [IdleCall EXCEPT !.request = req, !.route = route]
      auth == authenticateApiKey(req, config.NODE_ENV)
  IN  IF route = "notFound" THEN Respond(cr0, "notFoundHandler", 404)
      ELSE IF route = "root" THEN Respond(cr0, "root", 200)
      ELSE IF route = "healthCheck" THEN HealthCheckEntry(cr0)
      ELSE IF auth # NoError THEN NextError(cr0, auth)
      ELSE IF route = "distributeGas" THEN [cr0 EXCEPT !.pc = "validate"]
      ELSE IF route = "checkBalance" THEN CheckBalanceEntry(cr0)
      ELSE EstimateGasEntry(cr0)

\* A request arrives.  Requests are served one after the other in this
\* specification.
HttpRequest(c, req) ==
  /\ \A d \in Calls : call[d].pc = "idle"
  /\ \A d \in Calls : c <= d
  /\ invocations < MaxInvocations
  /\ call' = [call EXCEPT ![c] = HttpEntry(req)]
  /\ invocations' = invocations + 1
  /\ UNCHANGED <<hostVars, config, ledgerBalance, ledgerTxs, funded>>

\* validate(gasDistributionSchema): schema.parseAsync settled; next() enters
\* GasController.distributeGas, which calls the service
ValidateSettled(c) ==
  /\ call[c].pc = "validate"
  /\ call' = [call EXCEPT ![c] =
       IF gasDistributionSchema(@.request)
       THEN [DistributeGasEntry(@.request.address, @.request.amount)
               EXCEPT !.request = call[c].request, !.route = call[c].route,
                      !.handler = "distributeGas",
                      !.repeat = AccountOf(call[c].request.address) \in funded]
       ELSE NextError(@, ValidationError(<<"Validation failed">>))]
  /\ UNCHANGED <<hostVars, config, ledgerBalance, ledgerTxs, invocations, funded>>

\* getRecipientBalance settled for GasController.checkBalance
CheckBalanceSettled(c, ok) ==
  /\ call[c].pc = "checkBalance"
  /\ call' = [call EXCEPT ![c] =
       IF ok
       THEN [Respond(@, "controller", 200) EXCEPT
               !.recipientBalance = BalanceOf(AccountOf(call[c].recipientAddress)),
               !.response.recipient = call[c].recipientAddress,
               !.response.amount =
                  formatEther(BalanceOf(AccountOf(call[c].recipientAddress)))]
       ELSE NextError(@, BlockchainError(
                           <<"Failed to retrieve recipient balance">>, NoHash))]
  /\ UNCHANGED <<hostVars, config, ledgerBalance, ledgerTxs, invocations, funded>>

\* wallet.estimateGas settled for GasController.estimateGas
EstimateGasSettled(c, ok) ==
  /\ call[c].pc = "estimate.estimateGas"
  /\ call' = [call EXCEPT ![c] =
       IF ok
       THEN [Issue(@, "getFeeData", "-") EXCEPT !.pc = "estimate.getFeeData"]
       ELSE NextError(@, BlockchainError(<<"Failed to estimate gas cost">>,
                                         NoHash))]
  /\ UNCHANGED <<hostVars, config, ledgerBalance, ledgerTxs, invocations, funded>>

\* getGasPrice settled for GasController.estimateGas; the total cost is below
\* one minor unit of the model
EstimatePriceSettled(c, ok) ==
  /\ call[c].pc = "estimate.getFeeData"
  /\ call' = [call EXCEPT ![c] =
       IF ok
       THEN [Respond(@, "controller", 200) EXCEPT
               !.gasPrice = DefaultGasPrice,
               !.response.amount = formatEther(0)]
       ELSE NextError(@, BlockchainError(<<"Failed to retrieve gas price">>,
                                         NoHash))]
  /\ UNCHANGED <<hostVars, config, ledgerBalance, ledgerTxs, invocations, funded>>

\* Variant: a chain at height 0 counts as healthy
BlockNumberSettled_NonNegative(c, blockNumber) ==
  /\ call[c].pc = "health.getBlockNumber"
  /\ call' = [call EXCEPT ![c] =
       [Issue([@ EXCEPT !.healthy = blockNumber >= 0,
                        !.blockQuery = <<blockNumber>>],
              "getBalance", "wallet")
          EXCEPT !.pc = "health.getBalance"]]
  /\ UNCHANGED <<hostVars, config, ledgerBalance, ledgerTxs, invocations, funded>>

\* BlockchainService.healthCheck settled: blockNumber > 0, or false when
\* getBlockNumber rejected (blockNumber -1 here); the wallet balance is
\* asked for next.  blockQuery keeps what the query gave.
BlockNumberSettled(c, blockNumber) ==
  /\ call[c].pc = "health.getBlockNumber"
  /\ call' = [call EXCEPT ![c] =
       [Issue([@ EXCEPT !.healthy = IF blockNumber = -1 THEN FALSE
                                    ELSE blockNumber > 0,
                        !.blockQuery = <<blockNumber>>],
              "getBalance", "wallet")
          EXCEPT !.pc = "health.getBalance"]]
  /\ UNCHANGED <<hostVars, config, ledgerBalance, ledgerTxs, invocations, funded>>

\* getBalance settled for GasController.healthCheck: a failure is ignored and
\* the balance reported as '0'
HealthBalanceSettled(c, ok) ==
  /\ call[c].pc = "health.getBalance"
  /\ call' = [call EXCEPT ![c] =
       [Respond(@, "controller", IF call[c].healthy THEN 200 ELSE 503) EXCEPT
          !.response.amount = IF ok THEN formatEther(BalanceOf(WalletAccount))
                              ELSE <<"0">>]]
  /\ UNCHANGED <<hostVars, config, ledgerBalance, ledgerTxs, invocations, funded>>

\* The requests considered.  Keys: the configured one, one of the same length
\* that differs, one of the same length in characters with a character
\* outside ASCII, and a shorter one.
WrongKey == <<"k", "1", "3">>
NonAsciiKey == <<"k", "1", "U+00E9">>
ShortKey == <<"k">>

Bearer(key) == <<"Bearer ">> \o key

NoCredentials ==
  [authorization |-> Absent, xApiKey |-> Absent, queryApiKey |-> Absent]

Credentials ==
  { NoCredentials,
    [NoCredentials EXCEPT !.authorization = Bearer(ConfiguredApiKey)],
    [NoCredentials EXCEPT !.authorization = Bearer(WrongKey)],
    [NoCredentials EXCEPT !.authorization = Bearer(ShortKey)],
    [NoCredentials EXCEPT !.authorization = Bearer(NonAsciiKey)],
    [NoCredentials EXCEPT !.authorization = Bearer(<<>>)],
    [NoCredentials EXCEPT !.xApiKey = ConfiguredApiKey],
    [NoCredentials EXCEPT !.xApiKey = WrongKey],
    [NoCredentials EXCEPT !.authorization = Bearer(WrongKey),
                          !.xApiKey = ConfiguredApiKey],
    [NoCredentials EXCEPT !.authorization = <<"Basic ", "k">>,
                          !.xApiKey = ConfiguredApiKey],
    [NoCredentials EXCEPT !.queryApiKey = ConfiguredApiKey],
    [NoCredentials EXCEPT !.queryApiKey = WrongKey] }

Request(method, path, cred, address, amount) ==
  [method |-> method, path |-> path, authorization |-> cred.authorization,
   xApiKey |-> cred.xApiKey, queryApiKey |-> cred.queryApiKey,
   address |-> address, amount |-> amount]

\* Ten tokens, and ten tokens and one minor unit
MaxAmount == NatToDigits(MaxTokens)
JustOverMaxAmount ==
  NatToDigits(MaxTokens) \o <<".">> \o Rep("0", EtherDecimals - 1) \o <<"1">>

HttpAmounts ==
  { Absent, <<>>, FullPrecisionAmount, MaxAmount, JustOverMaxAmount,
    NatToDigits(MaxTokens + 1), <<"0">>, <<"-", "1">>, <<"1", "x">> }

HttpAddresses ==
  { RaceRecipient, <<"0", "x">> \o Rep("g", AddrHexLen), Absent }

\* The endpoints the root endpoint lists
AdvertisedEndpoints ==
  { [method |-> "POST", path |-> "/api/fair/gas"],
    [method |-> "GET", path |-> "/api/health"],
    [method |-> "GET", path |-> "/api/wallet/info"],
    [method |-> "GET", path |-> "/api/balance/:address"],
    [method |-> "POST", path |-> "/api/estimate"],
    [method |-> "GET", path |-> "/api/transaction/:txHash"] }

HttpRequests ==
  { Request("POST", "/api/fair/gas", cred, RaceRecipient, Absent) :
      cred \in Credentials }
  \cup { Request("GET", "/api/balance/:address", cred, RaceRecipient, Absent) :
           cred \in Credentials }
  \cup { Request("POST", "/api/estimate", cred, RaceRecipient, Absent) :
           cred \in Credentials }
  \cup { Request("POST", "/api/fair/gas",
                 [NoCredentials EXCEPT !.xApiKey = ConfiguredApiKey],
                 address, amount) :
           address \in HttpAddresses, amount \in HttpAmounts }
  \cup { Request(method, path, NoCredentials, Absent, Absent) :
           method \in {"GET"},
           path \in {"/api/health", "/", "/api/wallet/info"} }
  \cup { Request(e.method, e.path,
                 [NoCredentials EXCEPT !.xApiKey = ConfiguredApiKey],
                 RaceRecipient, Absent) : e \in AdvertisedEndpoints }

\* The wallet can pay for twice the largest amount
HttpWalletBalance == 2 * MaxTokens * Pow10(EtherDecimals)

NodeEnvs == {"development", "production", "test"}

InitHttp ==
  /\ \E n \in NodeEnvs : config = [EnvConfig(Absent) EXCEPT !.NODE_ENV = n]
  /\ ledgerBalance = [a \in Accounts |-> IF a = WalletAccount
                                          THEN HttpWalletBalance ELSE 0]
  /\ ledgerTxs = <<>>
  /\ call = [c \in Calls |-> IdleCall]
  /\ invocations = 0
  /\ funded = {}
  /\ HostIdle

NextHttp ==
  \/ \E c \in Calls, req \in HttpRequests : HttpRequest(c, req)
  \/ \E c \in Calls : ValidateSettled(c)
  \/ \E c \in Calls, ok \in BOOLEAN : CheckBalanceSettled(c, ok)
  \/ \E c \in Calls, ok \in BOOLEAN : EstimateGasSettled(c, ok)
  \/ \E c \in Calls, ok \in BOOLEAN : EstimatePriceSettled(c, ok)
  \/ \E c \in Calls, n \in {-1, 0, 7} : BlockNumberSettled(c, n)
  \/ \E c \in Calls, ok \in BOOLEAN : HealthBalanceSettled(c, ok)
  \/ \E c \in Calls : RecipientBalanceResolved(c)
  \/ \E c \in Calls : WalletBalanceResolved(c)
  \/ \E c \in Calls : FeeDataResolved(c, DefaultGasPrice)
  \/ \E c \in Calls : SendResolved(c)
  \/ \E h \in 1..MaxInvocations : Mine(h, TRUE)
  \/ \E c \in Calls : WaitResolvedReceipt(c)
  \/ \E c \in Calls : ControllerContinue(c)
  \/ \E c \in Calls : Return(c)

SpecHttp == InitHttp /\ [][NextHttp]_vars

\* ------------------------------------------------------------ rate limiter
\* app.use('/api', limiter): express-rate-limit with windowMs one minute and
\* max MAX_REQUESTS_PER_MINUTE, its memory store keyed by req.ip.  The store
\* counts in fixed windows: either one window per client that begins with the
\* client's first request after the previous one ended, or windows common to
\* all clients that an interval timer ends.
StoreKinds == {"perClient", "interval"}

\* The clock is looked at for one window and the first tick of the next
MaxTime == WindowTicks

\* Requests looked at in one run
MaxRequests == DefaultMaxRequestsPerMinute + 2

\* The limiter is mounted on '/api'
UnderApi(path) == path # "/"

\* Variant: the window restarts with every request
Increment_Restarting(client) ==
  LET entry == store.clients[client]
      current == [totalHits |-> 0, resetTime |-> now + WindowTicks]
  IN  [current EXCEPT !.totalHits = @ + 1]

\* store.increment(key)
Increment(client) ==
  LET entry == store.clients[client]
      current == IF store.kind = "perClient" /\ entry.resetTime <= now
                 THEN [totalHits |-> 0, resetTime |-> now + WindowTicks]
                 ELSE entry
  IN  [current EXCEPT !.totalHits = @ + 1]

\* The limiter's answer
TooManyRequests(cr) ==
  [Respond(cr, "rateLimit", 429) EXCEPT
     !.response.message =
       <<"Too many requests from this IP, please try again later.">>]

\* A request of a client arrives: under /api the limiter counts it and
\* answers 429 when the count is above max; otherwise the request goes on to
\* the routes.  Requests are served one after the other.
LimitedRequest(c, client, req) ==
  /\ \A d \in Calls : call[d].pc = "idle"
  /\ \A d \in Calls : c <= d
  /\ invocations < MaxRequests
  /\ invocations' = invocations + 1
  /\ IF UnderApi(req.path)
     THEN LET entry == Increment(client)
              limited == entry.totalHits > config.MAX_REQUESTS_PER_MINUTE
          IN  /\ store' = [store EXCEPT !.clients[client] = entry]
              /\ limitLog' = Append(limitLog,
                   [client |-> client, time |-> now,
                    resetTime |-> entry.resetTime, passed |-> ~limited])
              /\ call' = [call EXCEPT ![c] =
                   IF limited
                   THEN TooManyRequests([IdleCall EXCEPT !.request = req])
                   ELSE HttpEntry(req)]
     ELSE /\ call' = [call EXCEPT ![c] = HttpEntry(req)]
          /\ UNCHANGED <<store, limitLog>>
  /\ UNCHANGED <<config, ledgerBalance, ledgerTxs, funded, now, proc, lambda>>

\* The clock advances, between two requests; the interval timer of the
\* store ends the window of all clients
Tick ==
  /\ now < MaxTime
  /\ \A d \in Calls : call[d].pc = "idle"
  /\ now' = now + 1
  /\ store' = IF store.kind = "interval" /\ now' % WindowTicks = 0
              THEN [store EXCEPT !.clients =
                      [k \in Clients |->
                         [totalHits |-> 0, resetTime |-> now' + WindowTicks]]]
              ELSE store
  /\ UNCHANGED <<config, ledgerBalance, ledgerTxs, call, invocations, funded,
                 limitLog, proc, lambda>>

\* GET / and GET /api/balance/:address with the configured key and with a
\* wrong one
LimitRequests ==
  { Request("GET", "/", NoCredentials, Absent, Absent),
    Request("GET", "/api/balance/:address",
            [NoCredentials EXCEPT !.xApiKey = ConfiguredApiKey],
            RaceRecipient, Absent),
    Request("GET", "/api/balance/:address",
            [NoCredentials EXCEPT !.xApiKey = WrongKey],
            RaceRecipient, Absent) }

InitLimit ==
  /\ config = EnvConfig(Absent)
  /\ ledgerBalance = [a \in Accounts |-> IF a = WalletAccount
                                          THEN HttpWalletBalance ELSE 0]
  /\ ledgerTxs = <<>>
  /\ call = [c \in Calls |-> IdleCall]
  /\ invocations = 0
  /\ funded = {}
  /\ now = 0
  /\ \E kind \in StoreKinds :
       store = [kind |-> kind,
                clients |-> [k \in Clients |->
                   IF kind = "interval"
                   THEN [totalHits |-> 0, resetTime |-> WindowTicks]
                   ELSE NoClient]]
  /\ limitLog = <<>>
  /\ proc = NoProcess
  /\ lambda = NoLambda

NextLimit ==
  \/ \E c \in Calls, client \in Clients, req \in LimitRequests :
       LimitedRequest(c, client, req)
  \/ \E c \in Calls, ok \in BOOLEAN : CheckBalanceSettled(c, ok)
  \/ \E c \in Calls : Return(c)
  \/ Tick

SpecLimit == InitLimit /\ [][NextLimit]_vars

\* ---------------------------------------------------------- server process
\* index.ts: startServer, gracefulShutdown and the handlers of SIGTERM and
\* SIGINT, which are registered when the module is loaded, before
\* startServer is called.
Signals == {"SIGTERM", "SIGINT"}

\* `server` is undefined until app.listen has returned
StartingProcess ==
  [pc |-> "starting", isHealthy |-> FALSE, server |-> FALSE,
   bound |-> FALSE, closing |-> FALSE, connections |-> 0,
   signals |-> 0, lastSignal |-> "none", timers |-> 0, exitCode |-> "none"]

\* process.exit(code)
Exit(p, code) == [p EXCEPT !.pc = "exited", !.exitCode = code]

\* startServer after `await blockchainService.healthCheck()`: the app is
\* created and app.listen assigns `server`
HealthSettled(isHealthy) ==
  /\ proc.pc = "starting"
  /\ proc' = [proc EXCEPT !.pc = "listening", !.isHealthy = isHealthy,
                          !.server = TRUE]
  /\ UNCHANGED <<config, ledgerBalance, ledgerTxs, call, invocations, funded,
                 now, store, limitLog, lambda>>

\* startServer's catch: something thrown after the health check
StartFailed ==
  /\ proc.pc = "starting"
  /\ proc' = Exit(proc, "1")
  /\ UNCHANGED <<config, ledgerBalance, ledgerTxs, call, invocations, funded,
                 now, store, limitLog, lambda>>

\* The port is bound, or server.on('error') exits with 1
ListenSettled(ok) ==
  /\ proc.pc = "listening"
  /\ ~proc.bound
  /\ ~proc.closing
  /\ proc' = IF ok THEN [proc EXCEPT !.bound = TRUE] ELSE Exit(proc, "1")
  /\ UNCHANGED <<config, ledgerBalance, ledgerTxs, call, invocations, funded,
                 now, store, limitLog, lambda>>

\* A client connects to the listening server, and a connection ends
Connect ==
  /\ proc.pc = "listening"
  /\ proc.bound
  /\ ~proc.closing
  /\ proc.connections < NumCalls
  /\ proc' = [proc EXCEPT !.connections = @ + 1]
  /\ UNCHANGED <<config, ledgerBalance, ledgerTxs, call, invocations, funded,
                 now, store, limitLog, lambda>>

Disconnect ==
  /\ proc.pc = "listening"
  /\ proc.connections > 0
  /\ proc' = [proc EXCEPT !.connections = @ - 1]
  /\ UNCHANGED <<config, ledgerBalance, ledgerTxs, call, invocations, funded,
                 now, store, limitLog, lambda>>

\* gracefulShutdown(signal): with a server, server.close(callback) and the
\* force-shutdown timer; without one, nothing
gracefulShutdown(p, signal) ==
  LET p1 == [p EXCEPT !.signals = @ + 1, !.lastSignal = signal]
  IN  IF p.server
      THEN [p1 EXCEPT !.closing = TRUE, !.timers = @ + 1]
      ELSE p1

\* The process receives SIGTERM or SIGINT
Signal(signal) ==
  /\ proc.pc \in {"starting", "listening"}
  /\ proc.signals < MaxInvocations
  /\ proc' = gracefulShutdown(proc, signal)
  /\ UNCHANGED <<config, ledgerBalance, ledgerTxs, call, invocations, funded,
                 now, store, limitLog, lambda>>

\* The closing server has no connection left: 'close' is emitted and the
\* callback exits with 0
ServerClosed ==
  /\ proc.pc = "listening"
  /\ proc.closing
  /\ proc.connections = 0
  /\ proc' = Exit(proc, "0")
  /\ UNCHANGED <<config, ledgerBalance, ledgerTxs, call, invocations, funded,
                 now, store, limitLog, lambda>>

\* The force-shutdown timer fires after 10 seconds
ForceTimer ==
  /\ proc.pc = "listening"
  /\ proc.timers > 0
  /\ proc' = Exit(proc, "1")
  /\ UNCHANGED <<config, ledgerBalance, ledgerTxs, call, invocations, funded,
                 now, store, limitLog, lambda>>

InitProcess ==
  /\ config = EnvConfig(Absent)
  /\ ledgerBalance = [a \in Accounts |-> IF a = WalletAccount
                                          THEN HttpWalletBalance ELSE 0]
  /\ ledgerTxs = <<>>
  /\ call = [c \in Calls |-> IdleCall]
  /\ invocations = 0
  /\ funded = {}
  /\ now = 0
  /\ store = [kind |-> "perClient", clients |-> [k \in Clients |-> NoClient]]
  /\ limitLog = <<>>
  /\ proc = StartingProcess
  /\ lambda = NoLambda

NextProcess ==
  \/ \E isHealthy \in BOOLEAN : HealthSettled(isHealthy)
  \/ StartFailed
  \/ \E ok \in BOOLEAN : ListenSettled(ok)
  \/ Connect
  \/ Disconnect
  \/ \E signal \in Signals : Signal(signal)
  \/ ServerClosed
  \/ ForceTimer

\* The health check settles, the bind settles, an armed timer fires and a
\* server with no connection closes: each happens once it can
SpecProcess ==
  /\ InitProcess
  /\ [][NextProcess]_vars
  /\ WF_vars(\E isHealthy \in BOOLEAN : HealthSettled(isHealthy))
  /\ WF_vars(\E ok \in BOOLEAN : ListenSettled(ok))
  /\ WF_vars(ServerClosed)
  /\ WF_vars(ForceTimer)

\* ------------------------------------------------------ serverless function
\* api/index.ts: the module variable `app`, initApp and the handler.  An app
\* instance is named by the number of the createApp call that made it; 0 is
\* `undefined`.
NoApp == 0

IdleInvocation ==
  [pc |-> "idle", isHealthy |-> FALSE, expressApp |-> NoApp, status |-> 0]

ColdLambda ==
  [pc |-> "loaded", app |-> NoApp, created |-> 0, started |-> 0,
   inv |-> [i \in Calls |-> IdleInvocation]]

\* handler(req, res) up to the first await: initApp reads `app`; with an app
\* it returns it, without one it awaits the health check
LambdaInvoke(i) ==
  /\ lambda.inv[i].pc = "idle"
  /\ lambda.started < MaxInvocations
  /\ lambda' = [lambda EXCEPT
       !.started = @ + 1,
       !.inv[i] = IF lambda.app # NoApp
                  THEN [IdleInvocation EXCEPT !.pc = "initialized",
                                              !.expressApp = lambda.app]
                  ELSE [IdleInvocation EXCEPT !.pc = "healthCheck"]]
  /\ UNCHANGED <<config, ledgerBalance, ledgerTxs, call, invocations, funded,
                 now, store, limitLog, proc>>

\* The health check of an initApp call settled: `app = createApp()` and the
\* new app is returned
LambdaHealthSettled(i, isHealthy) ==
  /\ lambda.inv[i].pc = "healthCheck"
  /\ lambda' = [lambda EXCEPT
       !.created = @ + 1,
       !.app = lambda.created + 1,
       !.inv[i] = [@ EXCEPT !.pc = "initialized", !.isHealthy = isHealthy,
                            !.expressApp = lambda.created + 1]]
  /\ UNCHANGED <<config, ledgerBalance, ledgerTxs, call, invocations, funded,
                 now, store, limitLog, proc>>

\* Something thrown in initApp after the health check: initApp rethrows and
\* the handler answers 500
LambdaInitFailed(i) ==
  /\ lambda.inv[i].pc = "healthCheck"
  /\ lambda' = [lambda EXCEPT !.inv[i] = [@ EXCEPT !.pc = "answered",
                                                   !.status = 500]]
  /\ UNCHANGED <<config, ledgerBalance, ledgerTxs, call, invocations, funded,
                 now, store, limitLog, proc>>

\* expressApp(req, res): the app the invocation got answers (GET /)
LambdaServe(i) ==
  /\ lambda.inv[i].pc = "initialized"
  /\ lambda' = [lambda EXCEPT !.inv[i] = [@ EXCEPT !.pc = "answered",
                                                   !.status = 200]]
  /\ UNCHANGED <<config, ledgerBalance, ledgerTxs, call, invocations, funded,
                 now, store, limitLog, proc>>

\* The invocation is over; what it was served by stays on record until the
\* slot is invoked again
LambdaDone(i) ==
  /\ lambda.inv[i].pc = "answered"
  /\ lambda' = [lambda EXCEPT !.inv[i].pc = "idle"]
  /\ UNCHANGED <<config, ledgerBalance, ledgerTxs, call, invocations, funded,
                 now, store, limitLog, proc>>

InitLambda ==
  /\ config = EnvConfig(Absent)
  /\ ledgerBalance = [a \in Accounts |-> IF a = WalletAccount
                                          THEN HttpWalletBalance ELSE 0]
  /\ ledgerTxs = <<>>
  /\ call = [c \in Calls |-> IdleCall]
  /\ invocations = 0
  /\ funded = {}
  /\ now = 0
  /\ store = [kind |-> "perClient", clients |-> [k \in Clients |-> NoClient]]
  /\ limitLog = <<>>
  /\ proc = NoProcess
  /\ lambda = ColdLambda

NextLambda ==
  \/ \E i \in Calls : LambdaInvoke(i)
  \/ \E i \in Calls, isHealthy \in BOOLEAN : LambdaHealthSettled(i, isHealthy)
  \/ \E i \in Calls : LambdaInitFailed(i)
  \/ \E i \in Calls : LambdaServe(i)
  \/ \E i \in Calls : LambdaDone(i)

SpecLambda == InitLambda /\ [][NextLambda]_vars

\* ------------------------------------------------------------- properties
Settled(cr) == cr.pc \in {"settled", "responded"}

Failed(cr) == Settled(cr) /\ cr.error # NoError

Called(cr, op) == \E i \in 1..Len(cr.ledgerCalls) : cr.ledgerCalls[i].op = op

Message(cr) == cr.error.message

\* C1: a request whose recipient equals the wallet address, compared without
\* regard to case, and whose amount converts, has failed with 'Cannot
\* distribute gas to the same wallet' and has made no ledger call at all,
\* whatever the balances are.
C1_SelfTransferRejectedBeforeLedger ==
  \A c \in Calls :
    (call[c].pc # "idle"
       /\ toLowerCase(call[c].recipientAddress) = toLowerCase(WalletAddress)
       /\ parseEther(ResolveAmount(call[c].amount, config)).ok)
    => /\ Failed(call[c])
       /\ Message(call[c]) = <<"Cannot distribute gas to the same wallet">>
       /\ call[c].ledgerCalls = <<>>

\* C2: once the recipient balance has been observed at or above the
\* threshold, the request has failed with SufficientBalanceError carrying
\* that balance and that threshold, and sendTransaction was not called.
C2_SufficientBalanceAtOrAboveThreshold ==
  \A c \in Calls :
    (call[c].recipientBalance # Unobserved
       /\ call[c].minimumBalance # Unobserved
       /\ call[c].recipientBalance >= call[c].minimumBalance)
    => /\ Failed(call[c])
       /\ call[c].error.name = "SufficientBalanceError"
       /\ parseEther(call[c].error.currentBalance)
            = [ok |-> TRUE, value |-> call[c].recipientBalance]
       /\ call[c].error.threshold = ResolveThreshold(config)
       /\ parseEther(call[c].error.threshold)
            = [ok |-> TRUE, value |-> call[c].minimumBalance]
       /\ ~Called(call[c], "sendTransaction")

C2_Witness ==
  \E c \in Calls :
    /\ call[c].recipientBalance = call[c].minimumBalance
    /\ call[c].recipientBalance > 0
    /\ call[c].error.name = "SufficientBalanceError"

\* C3: once the recipient balance has been observed below the threshold and
\* the wallet balance below the requested value, the request has failed
\* with InsufficientBalanceError and sendTransaction was not called.
C3_InsufficientWalletBalance ==
  \A c \in Calls :
    (call[c].recipientBalance # Unobserved
       /\ call[c].minimumBalance # Unobserved
       /\ call[c].recipientBalance < call[c].minimumBalance
       /\ call[c].balance # Unobserved
       /\ call[c].valueInWei > call[c].balance)
    => /\ Failed(call[c])
       /\ call[c].error.name = "InsufficientBalanceError"
       /\ ~Called(call[c], "sendTransaction")

C3_Witness ==
  \E c \in Calls :
    /\ call[c].balance # Unobserved
    /\ call[c].recipientBalance < call[c].minimumBalance
    /\ call[c].valueInWei > call[c].balance
    /\ call[c].error.name = "InsufficientBalanceError"

C5_MalformedAddressRejectedBeforeLedger ==
  \A c \in Calls :
    (call[c].pc # "idle" /\ call[c].recipientAddress \in MalformedRecipients)
    => /\ Failed(call[c])
       /\ call[c].error.name = "BlockchainError"
       /\ Message(call[c]) = <<"Invalid recipient address">>
       /\ call[c].ledgerCalls = <<>>

C5_Witness ==
  \E c \in Calls :
    /\ call[c].recipientAddress \in MalformedRecipients
    /\ Len(call[c].recipientAddress) = AddrHexLen + 2
    /\ Message(call[c]) = <<"Invalid recipient address">>

\* C6: a TransactionInfo is returned only with a receipt of status 1; it has
\* status true and the receipt's hash, which is not null; and a request that
\* settled without an error returned a TransactionInfo.
C6_SuccessOnlyWithSuccessfulReceipt ==
  \A c \in Calls :
    /\ call[c].result.present
         => /\ call[c].error = NoError
            /\ call[c].receipt.present
            /\ call[c].receipt.status = 1
            /\ call[c].result.status = TRUE
            /\ call[c].result.hash = call[c].receipt.hash
            /\ call[c].result.hash # NoHash
    /\ (Settled(call[c]) /\ call[c].error = NoError) => call[c].result.present

C6_Witness ==
  \E c \in Calls :
    /\ call[c].result.present
    /\ call[c].result.hash = call[c].txHash
    /\ call[c].response.sent

\* C7: when the confirmation wait gave a receipt whose status is not 1, the
\* request has failed with BlockchainError 'Transaction failed' whose
\* txHash is the receipt's hash.
C7_FailedReceiptCarriesHash ==
  \A c \in Calls :
    (call[c].receipt.present /\ call[c].receipt.status # 1)
    => /\ Failed(call[c])
       /\ call[c].error.name = "BlockchainError"
       /\ Message(call[c]) = <<"Transaction failed">>
       /\ call[c].error.txHash = call[c].receipt.hash
       /\ call[c].error.txHash # NoHash

C7_Witness ==
  \E c \in Calls :
    /\ call[c].receipt.present
    /\ call[c].receipt.status = 0
    /\ call[c].error.txHash = call[c].receipt.hash

\* C8: when a transfer was submitted and the confirmation wait gave no
\* receipt, the request has failed with 'Transaction failed - no receipt'
\* and the failure carries the hash of the submitted transaction.
C8_NoReceiptCarriesHash ==
  \A c \in Calls :
    (call[c].txHash # NoHash /\ call[c].waited = "null")
    => /\ Failed(call[c])
       /\ Message(call[c]) = <<"Transaction failed - no receipt">>
       /\ call[c].error.txHash = call[c].txHash

\* C9: a request that fails after sendTransaction returned a pending
\* transaction fails with 'Transaction failed' or 'Transaction failed - no
\* receipt', and a SufficientBalanceError or InsufficientBalanceError means
\* that no transaction was accepted.
C9_AttemptedTransferDistinguished ==
  \A c \in Calls :
    /\ (Failed(call[c]) /\ call[c].txHash # NoHash)
         => /\ call[c].error.name = "BlockchainError"
            /\ Message(call[c]) \in { <<"Transaction failed">>,
                                      <<"Transaction failed - no receipt">> }
    /\ call[c].error.name \in {"SufficientBalanceError",
                               "InsufficientBalanceError"}
         => call[c].txHash = NoHash

\* C10: a request that settled without a TransactionInfo carries exactly one
\* error, which is a SufficientBalanceError, an InsufficientBalanceError or a
\* BlockchainError with an AppError status code; the controller has passed
\* that error, and nothing else, to next() and has written no response.
TypedFailure(e) ==
  /\ e.name \in {"SufficientBalanceError", "InsufficientBalanceError",
                 "BlockchainError"}
  /\ e.statusCode = IF e.name = "SufficientBalanceError" THEN 400 ELSE 500

C10_TypedFailurePassedToNext ==
  \A c \in Calls :
    /\ (Settled(call[c]) /\ ~call[c].result.present)
         => TypedFailure(call[c].error)
    /\ (call[c].pc = "responded" /\ ~call[c].result.present)
         => /\ call[c].nextArgs = <<call[c].error>>
            /\ call[c].response.by # "controller"
    /\ call[c].pc = "settled"
         => call[c].nextArgs = <<>> /\ ~call[c].response.sent

C10_Witness ==
  \E c \in Calls :
    /\ call[c].pc = "responded"
    /\ call[c].waited = "rejected"
    /\ call[c].nextArgs = <<call[c].error>>
    /\ Message(call[c]) = <<"Transaction failed - unexpected error">>

\* C11: a request calls sendTransaction at most once, and once one of its
\* ledger calls has rejected the request is settled as failed with that call
\* as its last ledger call: nothing is retried.
C11_NoRetry ==
  \A c \in Calls :
    LET cr == call[c]
        sends == {i \in 1..Len(cr.ledgerCalls) :
                    cr.ledgerCalls[i].op = "sendTransaction"}
    IN  /\ Cardinality(sends) <= 1
        /\ cr.rejected # "none"
           => /\ Failed(cr)
              /\ cr.ledgerCalls # <<>>
              /\ cr.ledgerCalls[Len(cr.ledgerCalls)].op = cr.rejected

\* A request whose only sendTransaction call rejected after three queries
C11_Witness ==
  \E c \in Calls :
    /\ call[c].rejected = "sendTransaction"
    /\ Failed(call[c])
    /\ Len(call[c].ledgerCalls) = 4

\* C13: after a request for a recipient was answered with success, a later
\* request for the same recipient that finds the recipient's balance on the
\* ledger at or above the threshold fails with SufficientBalanceError and
\* calls sendTransaction not at all.
C13_SecondCallRejected ==
  \A c \in Calls :
    LET cr == call[c]
        threshold == parseEther(ResolveThreshold(config))
    IN  (cr.repeat
           /\ cr.recipientBalance # Unobserved
           /\ threshold.ok
           /\ cr.recipientBalance >= threshold.value)
        => /\ Failed(cr)
           /\ cr.error.name = "SufficientBalanceError"
           /\ ~Called(cr, "sendTransaction")
           /\ cr.txHash = NoHash

\* The second request for a recipient the first request has funded
C13_Witness ==
  \E c \in Calls :
    /\ call[c].repeat
    /\ call[c].recipientBalance >= call[c].minimumBalance
    /\ call[c].minimumBalance # Unobserved
    /\ Failed(call[c])
    /\ call[c].error.name = "SufficientBalanceError"
    /\ \E h \in 1..Len(ledgerTxs) :
         /\ ledgerTxs[h].status = "success"
         /\ ledgerTxs[h].to = AccountOf(call[c].recipientAddress)

\* C14: when sendTransaction rejected, the request has failed without calling
\* wait, and the failure follows from the text of the rejection (the message
\* of the Error it rejected with): with 'insufficient funds' in it an
\* InsufficientBalanceError; otherwise with 'network' in it a BlockchainError
\* 'Network error - please try again later'; otherwise a BlockchainError
\* 'Transaction failed - unexpected error'.
C14_SendRejectionClassified ==
  \A c \in Calls :
    LET cr == call[c]
        text == IF cr.caught.name = "Error" THEN cr.caught.message ELSE <<>>
        funds == \E i \in 1..Len(text) : text[i] = "insufficient funds"
        network == \E i \in 1..Len(text) : text[i] = "network"
    IN  cr.rejected = "sendTransaction"
        => /\ Failed(cr)
           /\ ~Called(cr, "wait")
           /\ cr.txHash = NoHash
           /\ funds => /\ cr.error.name = "InsufficientBalanceError"
                       /\ cr.error.statusCode = 500
           /\ (~funds /\ network)
              => /\ cr.error.name = "BlockchainError"
                 /\ Message(cr) = <<"Network error - please try again later">>
           /\ (~funds /\ ~network)
              => /\ cr.error.name = "BlockchainError"
                 /\ Message(cr) = <<"Transaction failed - unexpected error">>

\* sendTransaction rejected with a text that holds both phrases
C14_Witness ==
  \E c \in Calls :
    /\ call[c].rejected = "sendTransaction"
    /\ Includes(call[c].caught.message, "insufficient funds")
    /\ Includes(call[c].caught.message, "network")
    /\ call[c].error.name = "InsufficientBalanceError"

\* C15: a request with a well-formed recipient whose resolved amount does not
\* convert to minor units has failed with a failure of the 4xx class, and has
\* made no ledger call.
C15_UnparsableAmountIsBadRequest ==
  \A c \in Calls :
    (call[c].pc # "idle"
       /\ isValidAddress(call[c].recipientAddress)
       /\ ~parseEther(ResolveAmount(call[c].amount, config)).ok)
    => /\ Failed(call[c])
       /\ call[c].error.statusCode \in 400..499
       /\ call[c].ledgerCalls = <<>>

\* v is exactly the amount written as the decimal string s, in minor units:
\* scaling both sides to integers loses nothing
ExactMinorUnits(s, v) ==
  LET neg == Len(s) > 0 /\ s[1] = "-"
      t == IF neg THEN Tail(s) ELSE s
      p == FirstDot(t)
      whole == IF p = 0 THEN t ELSE SubSeq(t, 1, p - 1)
      decimal == IF p = 0 THEN <<>> ELSE SubSeq(t, p + 1, Len(t))
  IN  /\ AllDigits(whole \o decimal)
      /\ Len(whole \o decimal) > 0
      /\ (IF neg THEN 0 - v ELSE v) * Pow10(Len(decimal))
           = DigitsToNat(whole \o decimal) * Pow10(EtherDecimals)

\* C17: once a request has called sendTransaction, the value it passed is
\* exactly the minor-unit value of the configured GAS_AMOUNT when no amount
\* (or an empty one) was supplied, and of the caller's amount otherwise; the
\* submitted transfer and the reported outcome carry the same value.
C17_ExactConversion ==
  \A c \in Calls :
    LET cr == call[c]
        resolved == IF cr.amount = Absent \/ cr.amount = <<>>
                    THEN config.GAS_AMOUNT ELSE cr.amount
    IN  Called(cr, "sendTransaction")
        => /\ ExactMinorUnits(resolved, cr.valueInWei)
           /\ cr.txHash # NoHash => ledgerTxs[cr.txHash].value = cr.valueInWei
           /\ cr.result.present
              => /\ DigitsToNat(cr.result.value) = cr.valueInWei
                 /\ ExactMinorUnits(cr.response.amount, cr.valueInWei)
                    \/ ~cr.response.sent

\* A request answered 200 for an amount that uses every decimal
C17_Witness ==
  \E c \in Calls :
    /\ call[c].amount = FullPrecisionAmount
    /\ call[c].response.sent
    /\ call[c].response.status = 200
    /\ call[c].valueInWei % 10 = 1

\* C12: nothing makes a request wait for another one: a request whose wallet
\* balance query is pending can always take the answer and pass the gate, and
\* a request that has passed the gate can always submit, whatever the other
\* requests are doing; so two requests can both pass the gate on the same
\* balance and both submit.
C12_NoMutualExclusion ==
  \A c \in Calls :
    /\ call[c].pc = "getBalance" => ENABLED WalletBalanceResolved(c)
    /\ call[c].pc = "sendTransaction" => ENABLED SendResolved(c)

\* Two requests have both observed a wallet balance that covers their own
\* value but not the two together, and both have called sendTransaction.
C12_Witness ==
  \E c \in Calls, d \in Calls :
    /\ c # d
    /\ call[c].balance >= call[c].valueInWei
    /\ call[d].balance >= call[d].valueInWei
    /\ call[c].balance = call[d].balance
    /\ call[c].valueInWei + call[d].valueInWei > call[c].balance
    /\ Called(call[c], "sendTransaction")
    /\ Called(call[d], "sendTransaction")
    /\ Len(ledgerTxs) = 2

\* C18: the response to a request that failed with a BlockchainError carrying
\* a transaction hash has status 500 and that hash as error.transactionHash.
C18_ResponseCarriesTransactionHash ==
  \A c \in Calls :
    (call[c].pc = "responded"
       /\ call[c].error.name = "BlockchainError"
       /\ call[c].error.txHash # NoHash)
    => /\ call[c].response.sent
       /\ call[c].response.status = 500
       /\ call[c].response.transactionHash = call[c].error.txHash

\* C19: the response to a request that failed with a SufficientBalanceError
\* has status 400 and the error's currentBalance and threshold in its error
\* object.
C19_ResponseCarriesBalanceAndThreshold ==
  \A c \in Calls :
    (call[c].pc = "responded"
       /\ call[c].error.name = "SufficientBalanceError")
    => /\ call[c].response.sent
       /\ call[c].response.status = 400
       /\ call[c].response.currentBalance = call[c].error.currentBalance
       /\ call[c].response.threshold = call[c].error.threshold

\* C16: a POST /api/fair/gas request that supplied an amount and has called
\* sendTransaction passed a value v with 0 < v <= 10 tokens in minor units,
\* and the transfer it submitted has that value.
C16_SubmittedValueWithinBounds ==
  \A c \in Calls :
    LET cr == call[c]
    IN  (cr.route = "distributeGas"
           /\ cr.request.amount # Absent
           /\ Called(cr, "sendTransaction"))
        => /\ 0 < cr.valueInWei
           /\ cr.valueInWei <= MaxTokens * Pow10(EtherDecimals)
           /\ cr.txHash # NoHash
              => ledgerTxs[cr.txHash].value <= MaxTokens * Pow10(EtherDecimals)

\* C20: a request to a route that names authenticateApiKey reaches the
\* handler only if it presents the configured key (as Bearer token, as
\* X-API-Key header, or as the apiKey query parameter development mode also
\* reads); one that presents it nowhere is answered 401 without any handler
\* or ledger call; GET /api/health and GET / are served without a key.
C20_ProtectedRoutesNeedTheKey ==
  \A c \in Calls :
    LET cr == call[c]
        presents == \/ cr.request.authorization = Bearer(ConfiguredApiKey)
                    \/ cr.request.xApiKey = ConfiguredApiKey
                    \/ cr.request.queryApiKey = ConfiguredApiKey
    IN  /\ (cr.route \in ProtectedRoutes /\ cr.handler # "none") => presents
        /\ (cr.route \in ProtectedRoutes /\ ~presents)
           => /\ cr.pc = "responded"
              /\ cr.response.status = 401
              /\ cr.handler = "none"
              /\ cr.ledgerCalls = <<>>
        /\ (cr.route \in {"healthCheck", "root"} /\ cr.pc = "responded")
           => /\ cr.response.status \in {200, 503}
              /\ cr.response.by \in {"controller", "root"}

\* C26: with MINIMUM_BALANCE_THRESHOLD not set in the environment, the
\* threshold the recipient gate compares with is 0.005 tokens.
C26_DefaultThreshold ==
  \A c \in Calls :
    (config = EnvConfig(Absent) /\ call[c].minimumBalance # Unobserved)
    => call[c].minimumBalance = 5 * Pow10(EtherDecimals - 3)

C24_AdvertisedEndpointsRouted ==
  \A c \in Calls :
    LET cr == call[c]
    IN  (/\ cr.request # NoRequest
         /\ [method |-> cr.request.method, path |-> cr.request.path]
              \in AdvertisedEndpoints
         /\ cr.request.xApiKey = ConfiguredApiKey
         /\ cr.response.sent)
        => cr.response.by # "notFoundHandler"

\* C30: once sendTransaction has returned a transaction, the invocation stays
\* at the confirmation wait until the ledger client resolves or rejects it:
\* a call that has a hash and has left the wait has a wait outcome, a receipt
\* it was given is of a transaction no longer pending, and while the
\* transaction is pending no receipt can end the wait.
C30_WaitUnbounded ==
  \A c \in Calls :
    LET cr == call[c]
    IN  cr.txHash # NoHash
        => /\ cr.pc = "wait" <=> cr.waited = "no"
           /\ cr.waited \in {"no", "receipt", "null", "rejected"}
           /\ cr.waited = "receipt"
              => ledgerTxs[cr.txHash].status # "pending"
           /\ (cr.pc = "wait" /\ ledgerTxs[cr.txHash].status = "pending")
              => ~ENABLED WaitResolvedReceipt(c)
           /\ cr.pc = "wait" => (cr.result = NoResult /\ cr.error = NoError)

\* A call is waiting for a transfer the ledger has not included, after
\* another call was answered
C30_Witness ==
  \E c \in Calls :
    /\ call[c].pc = "wait"
    /\ ledgerTxs[call[c].txHash].status = "pending"
    /\ invocations = MaxInvocations

\* C29: two requests for the same recipient that have both read the same
\* recipient balance, below the threshold, have both passed the recipient
\* gate, neither is kept from submitting, and when both have succeeded the
\* ledger holds two successful transfers and the recipient has received
\* both values.
C29_NoDeduplication ==
  \A c \in Calls : \A d \in Calls \ {c} :
    LET cr == call[c]
        dr == call[d]
    IN  (/\ cr.recipientAddress = dr.recipientAddress
         /\ cr.recipientBalance # Unobserved
         /\ cr.recipientBalance = dr.recipientBalance
         /\ cr.recipientBalance < cr.minimumBalance)
        => /\ cr.error.name # "SufficientBalanceError"
           /\ cr.pc = "sendTransaction" => ENABLED SendResolved(c)
           /\ (cr.result # NoResult /\ dr.result # NoResult)
              => /\ cr.txHash # dr.txHash
                 /\ ledgerTxs[cr.txHash].status = "success"
                 /\ ledgerTxs[dr.txHash].status = "success"
                 /\ BalanceOf(AccountOf(cr.recipientAddress))
                      = cr.recipientBalance + cr.valueInWei + dr.valueInWei

\* Both of two such requests have succeeded
C29_Witness ==
  \E c \in Calls : \E d \in Calls \ {c} :
    /\ call[c].recipientAddress = call[d].recipientAddress
    /\ call[c].recipientBalance = call[d].recipientBalance
    /\ call[c].recipientBalance < call[c].minimumBalance
    /\ call[c].result # NoResult
    /\ call[d].result # NoResult
    /\ BalanceOf(AccountOf(call[c].recipientAddress))
         = call[c].recipientBalance + 2 * Wei(DefaultGasAmount)

\* The requests of a client the limiter passed on at times from..to
PassedOn(client, from, to) ==
  { i \in 1..Len(limitLog) : /\ limitLog[i].client = client
                             /\ limitLog[i].passed
                             /\ limitLog[i].time \in from..to }

\* A request the limiter answered got 429 and reached neither a route nor
\* authentication nor the ledger; a request to the root path is answered by
\* the root endpoint and is not counted
LimiterAnswers ==
  \A c \in Calls :
    LET cr == call[c]
    IN  /\ cr.response.by = "rateLimit"
           => /\ cr.response.status = 429
              /\ UnderApi(cr.request.path)
              /\ cr.route = "none" /\ cr.handler = "none"
              /\ cr.error = NoError /\ cr.ledgerCalls = <<>>
        /\ (cr.request # NoRequest /\ ~UnderApi(cr.request.path))
           => (cr.response.by = "root" /\ cr.response.status = 200)
        /\ cr.response.status = 429 => cr.response.by = "rateLimit"

C22_DailyLimit ==
  \A k \in Clients, t \in 0..MaxTime :
    Cardinality(PassedOn(k, t, t + MinutesPerDay * WindowTicks - 1))
      <= config.MAX_REQUESTS_PER_DAY

\* C27: once the process has received SIGTERM or SIGINT, at whatever point
\* of its life, it eventually exits.
C27_SignalLeadsToExit ==
  (proc.signals > 0) ~> (proc.pc = "exited")

\* C28: createApp is called at most once, and all invocations that got an
\* app got the same one.
C28_InitializedOnce ==
  /\ lambda.created <= 1
  /\ \A i \in Calls : \A j \in Calls :
       (lambda.inv[i].expressApp # NoApp /\ lambda.inv[j].expressApp # NoApp)
       => lambda.inv[i].expressApp = lambda.inv[j].expressApp

====
